---- MODULE Spec2Model ----
(***************************************************************************)
(* Alert delivery and notification queue of the PolicyWatch frontend:      *)
(* App.tsx (poll effect, toast queue, mute / dismiss helpers, handlers),   *)
(* AlertToast.tsx (leave timer), AlertsModal.tsx (mute from the alerts     *)
(* manager) and api.ts (requests to the backend).                          *)
(*                                                                         *)
(* One JavaScript event loop: every action below is one synchronous        *)
(* stretch of code between two suspension points (await / timer / event).  *)
(* React state updates of toastQueue are functional updaters applied in    *)
(* the order they are enqueued, so each is applied where it is issued.     *)
(***************************************************************************)
EXTENDS Integers, Sequences, FiniteSets, Bags, TLC

\* ------------------------------------------------------------------ bounds
Alerts == {"A", "B"}
Deliveries == {"d1", "d2", "d3"}
\* the alert each delivery belongs to (server data)
AlertOf == [d \in Deliveries |-> IF d = "d3" THEN "B" ELSE "A"]
\* longest poll result the Delivery Source returns
MaxBatch == 2
\* concurrently outstanding poll fetches
MaxPolls == 2
\* handler calls (acknowledge, mute always, unmute) suspended at the same time
MaxTasks == 1

\* ----------------------------------------------------------------- time
\* Time is counted in seconds, the code counts it in milliseconds: TLC
\* integers are 32 bit wide and 30 * 24 * 60 * 60 * 1000 is not.  Every
\* instant and every duration of the code is a whole number of seconds here.
MIN == 60
H == 60 * MIN
\* period of the window.setInterval of the poll effect
PollEvery == 5 * MIN
\* Date.now() at the start of the run
T0 == 1000
\* the instants at which the event loop runs something
Instants == {T0, T0 + 6 * MIN}
MuteChoices == {"1h", "8h", "1d", "1w", "1mo"}
CoreChoices == {"1h"}
\* the instants of the specification of the clock
ClockInstants == {T0, T0 + 5 * MIN, T0 + 6 * MIN, T0 + 30 * MIN, T0 + 60 * MIN,
                  T0 + 61 * MIN}

VARIABLES
  user,          \* App state `user`: TRUE when a user object is set
  toastQueue,    \* App state `toastQueue`
  localStorage,  \* window.localStorage, key -> number stored (0: no item)
  now,           \* Date.now()
  polls,         \* bag of the outstanding run() calls of the poll effect
  pollTimer,     \* TRUE while the window.setInterval of the poll effect is set
  pollDue,       \* earliest instant at which that interval fires next
  timers,        \* number of the intervals of the poll effect that are set
  srvMuted,      \* Alert Directory: the `muted` flag of each alert
  tasks,         \* handler calls suspended at an await: [op, id, ph]
  leaving,       \* AlertToast state `leaving`
  leaveTimer,    \* AlertToast leaveTimer: "none", "close" or "gotit" pending
  played,        \* playNotif() calls made by the handler that ran last
  alertsOpen,    \* App state `alertsOpen`: the alerts manager is shown
  alerts,        \* AlertsModal state `alerts`: the rows loaded last
  busy,          \* AlertsModal state `busy`
  err,           \* AlertsModal state `err`
  muteOpenFor,   \* AlertsModal state `muteOpenFor`: the row of the mute panel
  AudioCtx,      \* TRUE when window.AudioContext (or webkitAudioContext) exists
  audioCtxRef,   \* audioCtxRef.current: "null" or the state of the context
  gestured,      \* TRUE once `unlock` has run (first pointerdown or keydown)
  last           \* history: the handler that ran last and its input

modal == <<alertsOpen, alerts, busy, err, muteOpenFor>>

audio == <<AudioCtx, audioCtxRef, gestured>>

vars == <<user, toastQueue, localStorage, now, polls, pollTimer, pollDue, srvMuted,
          tasks, leaving, leaveTimer, played, modal, audio, timers, last>>

\* ------------------------------------------------------------ sequences
RECURSIVE SeqsUpTo(_, _)
SeqsUpTo(S, n) ==
  IF n = 0 THEN {<<>>}
  ELSE LET shorter == SeqsUpTo(S, n - 1)
       IN shorter \cup {Append(s, x) : s \in {t \in shorter : Len(t) = n - 1}, x \in S}

Range(s) == {s[i] : i \in 1..Len(s)}
DeliveryIds(q) == {q[i].delivery : i \in 1..Len(q)}
AlertIds(q) == {q[i].alert : i \in 1..Len(q)}

\* ------------------------------------------------------- notifications
Note(d, m) == [alert |-> AlertOf[d], delivery |-> d, muted |-> m]
\* entries that lack an alert id or a delivery id
Malformed == {[alert |-> "", delivery |-> "d1", muted |-> FALSE],
              [alert |-> "A", delivery |-> "", muted |-> FALSE]}
\* what GET /me/alerts/poll may answer when the directory flags are `flags`
Entries(flags) == {Note(d, flags[AlertOf[d]]) : d \in Deliveries} \cup Malformed
AnyResults(flags) == SeqsUpTo(Entries(flags), MaxBatch)
\* the answers that list no delivery twice and no malformed entry
Proper(s) == /\ \A i \in 1..Len(s) : s[i] \notin Malformed
             /\ \A i, j \in 1..Len(s) : s[i].delivery = s[j].delivery => i = j
PollResults(flags) == {s \in AnyResults(flags) : Proper(s)}
\* the proper answers about alert A alone
ManagerResults(flags) == {s \in PollResults(flags) : \A i \in 1..Len(s) : s[i].alert = "A"}
\* any answer about alert A alone: repeated and malformed entries included
ResultsA(flags) == {s \in AnyResults(flags) : \A i \in 1..Len(s) : s[i].alert \in {"A", ""}}

\* --------------------------------------------------- suppression store
LS_UNTIL(alertId) == <<"pw_alert_mute_until", alertId>>
DISMISS_UNTIL(alertId) == <<"pw_alert_dismiss_until", alertId>>
Keys == {LS_UNTIL(a) : a \in Alerts} \cup {DISMISS_UNTIL(a) : a \in Alerts}

nowMs == now

\* faulty variant of getMuteUntil: no expiry test (C5 fails)
getMuteUntilNoExpiry(ls, alertId) ==
  LET n == ls[LS_UNTIL(alertId)] IN IF n <= 0 THEN 0 ELSE n

\* value returned by getMuteUntil (0 stands for null)
getMuteUntil(ls, alertId) ==
  LET n == ls[LS_UNTIL(alertId)]
  IN IF n = 0 THEN 0
     ELSE IF n <= 0 THEN 0
     ELSE IF n <= nowMs THEN 0
     ELSE n

\* faulty variant of getMuteUntilLS: an expired item stays (C19 fails)
getMuteUntilKeeps(ls, alertId) == ls

\* the store after getMuteUntil: an expired item is removed
getMuteUntilLS(ls, alertId) ==
  LET n == ls[LS_UNTIL(alertId)]
  IN IF n > 0 /\ n <= nowMs THEN [ls EXCEPT ![LS_UNTIL(alertId)] = 0] ELSE ls

\* faulty variant of setMuteUntil: the dismiss-until item is written as well
\* (C28 fails)
setMuteUntilAndDismiss(ls, alertId, untilMs) ==
  [ls EXCEPT ![LS_UNTIL(alertId)] = untilMs, ![DISMISS_UNTIL(alertId)] = untilMs]

setMuteUntil(ls, alertId, untilMs) == [ls EXCEPT ![LS_UNTIL(alertId)] = untilMs]

\* faulty variant of clearMuteUntil: the dismiss-until item goes as well
\* (C18 fails)
clearMuteUntilAndDismiss(ls, alertId) ==
  [ls EXCEPT ![LS_UNTIL(alertId)] = 0, ![DISMISS_UNTIL(alertId)] = 0]

clearMuteUntil(ls, alertId) == [ls EXCEPT ![LS_UNTIL(alertId)] = 0]

choiceToUntil(choice) ==
  LET base == nowMs
  IN CASE choice = "1h" -> base + 1 * H
       [] choice = "8h" -> base + 8 * H
       [] choice = "1d" -> base + 24 * H
       [] choice = "1w" -> base + 7 * 24 * H
       [] choice = "1mo" -> base + 30 * 24 * H

\* faulty variant of AlertsModal_choiceToUntil: a month of 31 days (C23 fails)
choiceToUntilLongMonth(choice) ==
  LET base == nowMs
  IN CASE choice = "1h" -> base + 1 * H
       [] choice = "8h" -> base + 8 * H
       [] choice = "1d" -> base + 24 * H
       [] choice = "1w" -> base + 7 * 24 * H
       [] choice = "1mo" -> base + 31 * 24 * H

\* choiceToUntil of AlertsModal.tsx, a copy of its own
AlertsModal_choiceToUntil(choice) ==
  LET base == nowMs
  IN CASE choice = "1h" -> base + 1 * H
       [] choice = "8h" -> base + 8 * H
       [] choice = "1d" -> base + 24 * H
       [] choice = "1w" -> base + 7 * 24 * H
       [] choice = "1mo" -> base + 30 * 24 * H

\* faulty variant of getTempDismissed: the record is not honoured (C6 fails)
getTempDismissedNever(ls, alertId) == FALSE

getTempDismissed(ls, alertId) ==
  LET n == ls[DISMISS_UNTIL(alertId)]
  IN IF n = 0 THEN FALSE
     ELSE IF n <= 0 THEN FALSE
     ELSE IF n <= nowMs THEN FALSE
     ELSE TRUE

getTempDismissedLS(ls, alertId) ==
  LET n == ls[DISMISS_UNTIL(alertId)]
  IN IF n > 0 /\ n <= nowMs THEN [ls EXCEPT ![DISMISS_UNTIL(alertId)] = 0] ELSE ls

\* faulty variant of setTempDismissed: the record of every alert is written
\* (C17 fails)
setTempDismissedAll(ls, alertId, minutes) ==
  [k \in Keys |-> IF k[1] = "pw_alert_dismiss_until"
                  THEN nowMs + minutes * MIN ELSE ls[k]]

setTempDismissed(ls, alertId, minutes) ==
  [ls EXCEPT ![DISMISS_UNTIL(alertId)] = nowMs + minutes * MIN]

\* faulty variant of isMuted: the flag of the server is not looked at
\* (C13 fails)
isMutedLocally(ls, alertId, serverMuted) == getMuteUntil(ls, alertId) # 0

isMuted(ls, alertId, serverMuted) ==
  IF serverMuted THEN TRUE ELSE getMuteUntil(ls, alertId) # 0

\* ------------------------------------------------------ poll effect: run
\* faulty variant of WellFormed: the delivery id is not looked at (C14 fails)
WellFormedAlert(n) == n.alert # ""

WellFormed(n) == n.alert # "" /\ n.delivery # ""

\* faulty variant of Keep: the records of the store are not read when the
\* result is handled (C25 fails)
KeepByFlagOnly(ls, n) ==
  IF ~WellFormed(n) THEN FALSE
  ELSE IF n.muted THEN FALSE
  ELSE TRUE

\* the predicate of `(notes || []).filter(...)`
Keep(ls, n) ==
  IF ~WellFormed(n) THEN FALSE
  ELSE IF isMuted(ls, n.alert, n.muted) THEN FALSE
  ELSE IF getTempDismissed(ls, n.alert) THEN FALSE
  ELSE TRUE

\* the store after the predicate has run on one entry
KeepLS(ls, n) ==
  IF ~WellFormed(n) THEN ls
  ELSE IF n.muted THEN ls
  ELSE IF getMuteUntil(ls, n.alert) # 0 THEN ls
  ELSE getTempDismissedLS(getMuteUntilLS(ls, n.alert), n.alert)

RECURSIVE FilterLS(_, _)
FilterLS(ls, notes) ==
  IF notes = <<>> THEN ls ELSE FilterLS(KeepLS(ls, Head(notes)), Tail(notes))

RECURSIVE Filtered(_, _)
Filtered(ls, notes) ==
  IF notes = <<>> THEN <<>>
  ELSE LET n == Head(notes)
           rest == Filtered(KeepLS(ls, n), Tail(notes))
       IN IF Keep(ls, n) THEN <<n>> \o rest ELSE rest

\* faulty variant of NextAdds: the queue is not looked at (C27 fails)
NextAddsAll(prev, filtered) == filtered

\* faulty variant of NextAdds: only the first new entry is taken (C11 fails)
NextAddsFirstOnly(prev, filtered) ==
  LET have == DeliveryIds(prev)
      Fresh(x) == x.delivery \notin have
      fresh == SelectSeq(filtered, Fresh)
  IN IF fresh = <<>> THEN <<>> ELSE <<Head(fresh)>>

\* faulty variant of NextAdds: the delivery acknowledged by the step before
\* is remembered and not taken again (C22 fails)
NextAddsSkipsAcked(prev, filtered) ==
  LET have == DeliveryIds(prev)
             \cup (IF last.op = "AckSettled" THEN {last.input[1]} ELSE {})
      Fresh(x) == x.delivery \notin have
  IN SelectSeq(filtered, Fresh)

\* `filtered.filter((x) => !have.has(x.delivery.id))`
NextAdds(prev, filtered) ==
  LET have == DeliveryIds(prev)
      Fresh(x) == x.delivery \notin have
  IN SelectSeq(filtered, Fresh)

\* faulty variant of QueueAfterPoll: the new entries go in front (C12 fails)
QueueAfterPollInFront(prev, filtered) ==
  LET nextAdds == NextAdds(prev, filtered)
  IN IF nextAdds = <<>> THEN prev ELSE nextAdds \o prev

\* faulty variant of QueueAfterPoll: the new entries replace the queue
\* (C26 fails)
QueueAfterPollNewOnly(prev, filtered) ==
  LET nextAdds == NextAdds(prev, filtered)
  IN IF nextAdds = <<>> THEN prev ELSE nextAdds

\* the setToastQueue updater of run
QueueAfterPoll(prev, filtered) ==
  LET nextAdds == NextAdds(prev, filtered)
  IN IF nextAdds = <<>> THEN prev ELSE prev \o nextAdds

\* faulty variant of PlaysOfPoll: one sound per appended entry (C10 fails)
PlaysPerEntry(prev, filtered) == Len(NextAdds(prev, filtered))

\* playNotif calls made by the updater
PlaysOfPoll(prev, filtered) ==
  IF NextAdds(prev, filtered) = <<>> THEN 0 ELSE 1

\* faulty variant of ToastKey: the last entry is rendered (C9 fails)
ToastKeyOfLast(u, q) == IF u /\ q # <<>> THEN q[Len(q)].delivery ELSE "none"

\* ---------------------------------------------------------- AlertToast
\* React key of the mounted AlertToast ("none": no toast is rendered)
ToastKey(u, q) == IF u /\ q # <<>> THEN q[1].delivery ELSE "none"

\* AlertToast state after a render: a new key mounts a fresh component and
\* the unmount cleanup clears the pending leave timer
ToastAfter(u, q) ==
  IF ToastKey(u, q) = ToastKey(user, toastQueue)
  THEN <<leaving, leaveTimer>>
  ELSE <<FALSE, "none">>

SetQueue(u, q) ==
  /\ toastQueue' = q
  /\ leaving' = ToastAfter(u, q)[1]
  /\ leaveTimer' = ToastAfter(u, q)[2]

\* `prev.filter((x) => x.alert.id !== alertId)`
WithoutAlert(q, alertId) ==
  LET Other(x) == x.alert # alertId IN SelectSeq(q, Other)

\* faulty variant of WithoutDelivery: every entry of the alert goes (C8 fails)
WithoutAlertOfDelivery(q, deliveryId) ==
  LET Other(x) == x.alert # AlertOf[deliveryId] IN SelectSeq(q, Other)

\* `prev.filter((x) => x.delivery.id !== deliveryId)`
WithoutDelivery(q, deliveryId) ==
  LET Other(x) == x.delivery # deliveryId IN SelectSeq(q, Other)

\* --------------------------------------------------------------- Init
Ran(op, input) == [op |-> op, input |-> input]

NoFlags == [a \in Alerts |-> FALSE]
\* `muteOpenFor` when no mute panel is open
NoRow == [id |-> "null", muted |-> FALSE]

Init ==
  /\ user = FALSE
  /\ toastQueue = <<>>
  /\ localStorage = [k \in Keys |-> 0]
  /\ now = T0
  /\ polls = EmptyBag
  /\ pollTimer = FALSE
  /\ pollDue = 0
  /\ timers = 0
  /\ srvMuted = NoFlags
  /\ tasks = {}
  /\ leaving = FALSE
  /\ leaveTimer = "none"
  /\ played = 0
  /\ alertsOpen = FALSE
  /\ alerts = [a \in Alerts |-> "absent"]
  /\ busy = FALSE
  /\ err = "null"
  /\ muteOpenFor = NoRow
  /\ AudioCtx = FALSE
  /\ audioCtxRef = "null"
  /\ gestured = FALSE
  /\ last = Ran("Init", <<>>)

\* the same in a browser that may have Web Audio
InitAudio ==
  /\ user = FALSE
  /\ toastQueue = <<>>
  /\ localStorage = [k \in Keys |-> 0]
  /\ now = T0
  /\ polls = EmptyBag
  /\ pollTimer = FALSE
  /\ pollDue = 0
  /\ timers = 0
  /\ srvMuted = NoFlags
  /\ tasks = {}
  /\ leaving = FALSE
  /\ leaveTimer = "none"
  /\ played = 0
  /\ alertsOpen = FALSE
  /\ alerts = [a \in Alerts |-> "absent"]
  /\ busy = FALSE
  /\ err = "null"
  /\ muteOpenFor = NoRow
  /\ AudioCtx \in BOOLEAN
  /\ audioCtxRef = "null"
  /\ gestured = FALSE
  /\ last = Ran("Init", <<>>)

\* ------------------------------------------------------------ actions
\* Date.now() advances to one of the instants of I
Tick(I) ==
  /\ \E t \in I : t > now /\ now' = t
  /\ played' = 0
  /\ UNCHANGED audio
  /\ UNCHANGED timers
  /\ last' = Ran("Tick", <<>>)
  /\ UNCHANGED <<user, toastQueue, localStorage, polls, pollTimer, pollDue, srvMuted,
                 tasks, leaving, leaveTimer, modal>>

Count(b, p) == IF p \in BagToSet(b) THEN b[p] ELSE 0

\* faulty variant of Cancel: the cleanup leaves `cancelled` false (C2 fails)
CancelNothing(p) == p

\* cleanup of the poll effect: `cancelled = true` in the closure shared by
\* the runs of this activation.  A cancelled run returns before it looks at
\* the answer, so the flags of its answer are not recorded.
Cancel(p) == [p EXCEPT !.cancelled = TRUE, !.muted = NoFlags]

Cancelled(ps) ==
  LET D == {Cancel(p) : p \in BagToSet(ps)}
      Sum(q) == LET P == {p \in BagToSet(ps) : Cancel(p) = q}
                    RECURSIVE S(_)
                    S(X) == IF X = {} THEN 0
                            ELSE LET x == CHOOSE y \in X : TRUE
                                 IN ps[x] + S(X \ {x})
                IN S(P)
  IN [q \in D |-> Sum(q)]

\* cleanup of the [open] effect of AlertsModal: `cancelled = true`
CancelLoad(ts) ==
  {IF t.op = "load" THEN [t EXCEPT !.ph = "cancelled"] ELSE t : t \in ts}

\* faulty variant of StartRun: the request is issued twice (C16 fails)
StartRunTwice(ps) ==
  ps (+) SetToBag({[phase |-> "sent", cancelled |-> FALSE, muted |-> NoFlags]})
     (+) SetToBag({[phase |-> "sent", cancelled |-> FALSE, muted |-> NoFlags]})

\* `void run()`: pollAlerts() is issued
StartRun(ps) ==
  ps (+) SetToBag({[phase |-> "sent", cancelled |-> FALSE, muted |-> NoFlags]})

\* window.setInterval(run, ...): one more interval is set
setInterval(n) == n + 1

\* faulty variant of clearInterval: the interval stays set (C33 fails)
clearIntervalNothing(n) == n

\* window.clearInterval(t) of the cleanup: the interval of this activation
\* is no longer set
clearInterval(n) == IF n > 0 THEN n - 1 ELSE 0

\* onAuthStateChange delivers a session: setUser(user); the poll effect starts
SignIn(room, due) ==
  /\ ~user
  /\ BagCardinality(polls) < room
  /\ user' = TRUE
  /\ polls' = StartRun(polls)
  /\ pollTimer' = TRUE
  /\ pollDue' = due
  /\ SetQueue(TRUE, toastQueue)
  /\ UNCHANGED <<localStorage, now, srvMuted, tasks>>
  /\ played' = 0
  /\ UNCHANGED audio
  /\ timers' = setInterval(timers)
  /\ UNCHANGED modal
  /\ last' = Ran("SignIn", <<>>)

\* faulty variant of SignOut: the user effect removes the records of the
\* store as well (C32 fails)
SignOutClearsStore ==
  /\ user
  /\ user' = FALSE
  /\ polls' = Cancelled(polls)
  /\ pollTimer' = FALSE
  /\ pollDue' = 0
  /\ SetQueue(FALSE, <<>>)
  /\ alertsOpen' = FALSE
  /\ tasks' = CancelLoad(tasks)
  /\ localStorage' = [k \in Keys |-> 0]
  /\ UNCHANGED <<now, srvMuted, alerts, busy, err, muteOpenFor>>
  /\ played' = 0
  /\ UNCHANGED audio
  /\ timers' = clearInterval(timers)
  /\ last' = Ran("SignOut", <<>>)

\* onAuthStateChange delivers no session: setUser(null); the poll effect is
\* cleaned up and the user effect empties the queue
SignOut ==
  /\ user
  /\ user' = FALSE
  /\ polls' = Cancelled(polls)
  /\ pollTimer' = FALSE
  /\ pollDue' = 0
  /\ SetQueue(FALSE, <<>>)
  /\ alertsOpen' = FALSE
  /\ tasks' = CancelLoad(tasks)
  /\ UNCHANGED <<localStorage, now, srvMuted, alerts, busy, err, muteOpenFor>>
  /\ played' = 0
  /\ UNCHANGED audio
  /\ timers' = clearInterval(timers)
  /\ last' = Ran("SignOut", <<>>)

\* onAuthStateChange delivers a new user object for the signed-in user
\* (token refresh): cleanup of the poll effect, then the effect runs again
UserReplaced(room, due) ==
  /\ user
  /\ BagCardinality(polls) < room
  /\ polls' = StartRun(Cancelled(polls))
  /\ pollDue' = due
  /\ UNCHANGED <<user, toastQueue, localStorage, now, pollTimer, srvMuted,
                 tasks, leaving, leaveTimer>>
  /\ played' = 0
  /\ UNCHANGED audio
  /\ timers' = setInterval(clearInterval(timers))
  /\ UNCHANGED modal
  /\ last' = Ran("UserReplaced", <<>>)

\* window.setInterval(run, 5 * 60 * 1000) fires; `due` is the instant from
\* which it fires next (0 in the specifications that do not follow the timer)
PollInterval(room, due) ==
  /\ pollTimer /\ now >= pollDue
  /\ pollDue' = due
  /\ BagCardinality(polls) < room
  /\ polls' = StartRun(polls)
  /\ UNCHANGED <<user, toastQueue, localStorage, now, pollTimer, srvMuted,
                 tasks, leaving, leaveTimer>>
  /\ played' = 0
  /\ UNCHANGED audio
  /\ UNCHANGED timers
  /\ UNCHANGED modal
  /\ last' = Ran("PollInterval", <<>>)

\* the backend answers GET /me/alerts/poll with the flags it has now
PollRespond(p) ==
  /\ p \in BagToSet(polls) /\ p.phase = "sent"
  /\ polls' = (polls (-) SetToBag({p}))
                (+) SetToBag({[p EXCEPT !.phase = "resp",
                                        !.muted = IF p.cancelled THEN NoFlags
                                                  ELSE srvMuted]})
  /\ UNCHANGED <<user, toastQueue, localStorage, now, pollTimer, pollDue, srvMuted,
                 tasks, leaving, leaveTimer>>
  /\ played' = 0
  /\ UNCHANGED audio
  /\ UNCHANGED timers
  /\ UNCHANGED modal
  /\ last' = Ran("PollRespond", <<>>)

\* faulty variant of PollFail: the catch clears the interval (C15 fails)
PollFailStops(p) ==
  /\ p \in BagToSet(polls) /\ p.phase = "sent"
  /\ polls' = polls (-) SetToBag({p})
  /\ pollTimer' = FALSE
  /\ UNCHANGED pollDue
  /\ played' = 0
  /\ UNCHANGED audio
  /\ timers' = clearInterval(timers)
  /\ UNCHANGED modal
  /\ UNCHANGED <<user, toastQueue, localStorage, now, srvMuted,
                 tasks, leaving, leaveTimer>>
  /\ last' = Ran("PollFail", <<>>)

\* pollAlerts throws (network error or !res.ok): the catch of run ignores it
PollFail(p) ==
  /\ p \in BagToSet(polls) /\ p.phase = "sent"
  /\ polls' = polls (-) SetToBag({p})
  /\ played' = 0
  /\ UNCHANGED audio
  /\ UNCHANGED timers
  /\ UNCHANGED modal
  /\ UNCHANGED <<user, toastQueue, localStorage, now, pollTimer, pollDue, srvMuted,
                 tasks, leaving, leaveTimer>>
  /\ last' = Ran("PollFail", <<>>)

\* what `new AudioCtx()` does: it throws, or gives a context in the state
\* the autoplay policy of the browser decides
NewContexts == {"throws", "suspended", "running"}

\* audioCtxRef.current after ensureAudioUnlocked; `resumed` tells whether
\* ctx.resume() resolves (the resume is taken with its outcome)
ensureAudioUnlocked(ref, born, resumed) ==
  IF ~AudioCtx THEN ref
  ELSE LET ctx == IF ref = "null" THEN born ELSE ref
       IN IF ctx = "throws" THEN "null"
          ELSE IF ctx = "suspended" /\ resumed THEN "running"
          ELSE ctx

\* `unlock`: the first pointerdown or keydown on the window; both listeners
\* are removed
unlock ==
  /\ ~gestured
  /\ gestured' = TRUE
  /\ audioCtxRef' \in {ensureAudioUnlocked(audioCtxRef, born, resumed) :
                         born \in NewContexts, resumed \in BOOLEAN}
  /\ played' = 0
  /\ UNCHANGED <<user, toastQueue, localStorage, now, polls, pollTimer, pollDue,
                 srvMuted, tasks, leaving, leaveTimer, modal, AudioCtx, timers>>
  /\ last' = Ran("unlock", <<>>)

\* run resumes after `await pollAlerts()` with the answer `notes`
PollApply(p, notes) ==
  /\ p \in BagToSet(polls) /\ p.phase = "resp"
  /\ polls' = polls (-) SetToBag({p})
  /\ IF p.cancelled
     THEN /\ played' = 0
          /\ UNCHANGED <<toastQueue, localStorage, leaving, leaveTimer>>
     ELSE LET filtered == Filtered(localStorage, notes)
          IN /\ localStorage' = FilterLS(localStorage, notes)
             /\ IF filtered = <<>>
                THEN /\ played' = 0
                     /\ UNCHANGED <<toastQueue, leaving, leaveTimer>>
                ELSE /\ SetQueue(user, QueueAfterPoll(toastQueue, filtered))
                     /\ played' = PlaysOfPoll(toastQueue, filtered)
  /\ audioCtxRef' \in IF played' = 0 THEN {audioCtxRef}
                       ELSE {ensureAudioUnlocked(audioCtxRef, born, resumed) :
                               born \in NewContexts, resumed \in BOOLEAN}
  /\ UNCHANGED <<user, now, pollTimer, pollDue, srvMuted, tasks, modal,
                 AudioCtx, gestured, timers>>
  /\ last' = Ran("PollApply", [notes |-> notes, store |-> localStorage,
                                cancelled |-> p.cancelled,
                                acked |-> IF last.op = "AckSettled" /\ last.input[2]
                                          THEN last.input[1] ELSE "none"])

\* ---------------------------------------------- actions of the toast
ToastShown == user /\ toastQueue # <<>>

\* value of the `muted` constant of the rendered AlertToast
ToastMuted ==
  ToastShown /\ isMuted(localStorage, toastQueue[1].alert, toastQueue[1].muted)

Task(op, id, ph) == [op |-> op, id |-> id, ph |-> ph]

\* onMuteAlert(alertId, choice), timed branch, from the mute chooser
onMuteAlertTimed(choice) ==
  /\ ToastShown /\ ~ToastMuted
  /\ LET alertId == toastQueue[1].alert
     IN /\ localStorage' = setMuteUntil(localStorage, alertId, choiceToUntil(choice))
        /\ SetQueue(user, WithoutAlert(toastQueue, alertId))
  /\ UNCHANGED <<user, now, polls, pollTimer, pollDue, srvMuted, tasks>>
  /\ played' = 0
  /\ UNCHANGED audio
  /\ UNCHANGED timers
  /\ UNCHANGED modal
  /\ last' = Ran("onMuteAlertTimed", <<toastQueue[1].alert, choice>>)

\* onMuteAlert(alertId, "always") up to `await listAlerts()`
onMuteAlertAlways ==
  /\ ToastShown /\ ~ToastMuted
  /\ Cardinality(tasks) < MaxTasks
  /\ tasks' = tasks \cup {Task("onMuteAlert", toastQueue[1].alert, "list")}
  /\ UNCHANGED <<user, toastQueue, localStorage, now, polls, pollTimer, pollDue, srvMuted,
                 leaving, leaveTimer>>
  /\ played' = 0
  /\ UNCHANGED audio
  /\ UNCHANGED timers
  /\ UNCHANGED modal
  /\ last' = Ran("onMuteAlertAlways", <<toastQueue[1].alert>>)

\* listAlerts() settles: it throws (ok = FALSE), the alert is not in the list
\* (found = FALSE), or updateAlert(..., muted: true) is issued
MuteAlwaysListed(t, ok, found) ==
  /\ t \in tasks /\ t.op = "onMuteAlert" /\ t.ph = "list"
  /\ tasks' = IF ok /\ found
              THEN (tasks \ {t}) \cup {Task("onMuteAlert", t.id, "update")}
              ELSE tasks \ {t}
  /\ UNCHANGED <<user, toastQueue, localStorage, now, polls, pollTimer, pollDue, srvMuted,
                 leaving, leaveTimer>>
  /\ played' = 0
  /\ UNCHANGED audio
  /\ UNCHANGED timers
  /\ UNCHANGED modal
  /\ last' = Ran("MuteAlwaysListed", <<t.id, ok, found>>)

\* faulty variant of MuteAlwaysUpdated: the queued toasts of the alert are
\* removed whether the update succeeded or not (C29 fails)
MuteAlwaysUpdatedEitherWay(t, ok) ==
  /\ t \in tasks /\ t.op = "onMuteAlert" /\ t.ph = "update"
  /\ tasks' = tasks \ {t}
  /\ srvMuted' = IF ok THEN [srvMuted EXCEPT ![t.id] = TRUE] ELSE srvMuted
  /\ SetQueue(user, WithoutAlert(toastQueue, t.id))
  /\ UNCHANGED <<user, localStorage, now, polls, pollTimer, pollDue>>
  /\ played' = 0
  /\ UNCHANGED audio
  /\ UNCHANGED timers
  /\ UNCHANGED modal
  /\ last' = Ran("MuteAlwaysUpdated", <<t.id, ok>>)

\* updateAlert settles: on success the directory flag is set and the queued
\* toasts of the alert are removed; on failure onMuteAlert rejects
MuteAlwaysUpdated(t, ok) ==
  /\ t \in tasks /\ t.op = "onMuteAlert" /\ t.ph = "update"
  /\ tasks' = tasks \ {t}
  /\ IF ok
     THEN /\ srvMuted' = [srvMuted EXCEPT ![t.id] = TRUE]
          /\ SetQueue(user, WithoutAlert(toastQueue, t.id))
     ELSE UNCHANGED <<srvMuted, toastQueue, leaving, leaveTimer>>
  /\ UNCHANGED <<user, localStorage, now, polls, pollTimer, pollDue>>
  /\ played' = 0
  /\ UNCHANGED audio
  /\ UNCHANGED timers
  /\ UNCHANGED modal
  /\ last' = Ran("MuteAlwaysUpdated", <<t.id, ok>>)

\* onUnmuteAlert(alertId) up to `await listAlerts()`
onUnmuteAlert ==
  /\ ToastMuted
  /\ Cardinality(tasks) < MaxTasks
  /\ localStorage' = clearMuteUntil(localStorage, toastQueue[1].alert)
  /\ tasks' = tasks \cup {Task("onUnmuteAlert", toastQueue[1].alert, "list")}
  /\ UNCHANGED <<user, toastQueue, now, polls, pollTimer, pollDue, srvMuted,
                 leaving, leaveTimer>>
  /\ played' = 0
  /\ UNCHANGED audio
  /\ UNCHANGED timers
  /\ UNCHANGED modal
  /\ last' = Ran("onUnmuteAlert", <<toastQueue[1].alert>>)

\* listAlerts() of onUnmuteAlert settles
UnmuteListed(t, ok, found) ==
  /\ t \in tasks /\ t.op = "onUnmuteAlert" /\ t.ph = "list"
  /\ tasks' = IF ok /\ found /\ srvMuted[t.id]
              THEN (tasks \ {t}) \cup {Task("onUnmuteAlert", t.id, "update")}
              ELSE tasks \ {t}
  /\ UNCHANGED <<user, toastQueue, localStorage, now, polls, pollTimer, pollDue, srvMuted,
                 leaving, leaveTimer>>
  /\ played' = 0
  /\ UNCHANGED audio
  /\ UNCHANGED timers
  /\ UNCHANGED modal
  /\ last' = Ran("UnmuteListed", <<t.id, ok, found>>)

\* updateAlert(..., muted: false) of onUnmuteAlert settles; a failure is caught
UnmuteUpdated(t, ok) ==
  /\ t \in tasks /\ t.op = "onUnmuteAlert" /\ t.ph = "update"
  /\ tasks' = tasks \ {t}
  /\ srvMuted' = IF ok THEN [srvMuted EXCEPT ![t.id] = FALSE] ELSE srvMuted
  /\ UNCHANGED <<user, toastQueue, localStorage, now, polls, pollTimer, pollDue,
                 leaving, leaveTimer>>
  /\ played' = 0
  /\ UNCHANGED audio
  /\ UNCHANGED timers
  /\ UNCHANGED modal
  /\ last' = Ran("UnmuteUpdated", <<t.id, ok>>)

\* AlertToast.closeTemp: click on the close button
closeTemp ==
  /\ ToastShown
  /\ ~leaving
  /\ leaving' = TRUE
  /\ leaveTimer' = "close"
  /\ UNCHANGED <<user, toastQueue, localStorage, now, polls, pollTimer, pollDue, srvMuted,
                 tasks>>
  /\ played' = 0
  /\ UNCHANGED audio
  /\ UNCHANGED timers
  /\ UNCHANGED modal
  /\ last' = Ran("closeTemp", <<>>)

\* faulty variant of gotIt: no `if (leaving) return` (C31 fails)
gotItWhileLeaving ==
  /\ ToastShown
  /\ leaving' = TRUE
  /\ leaveTimer' = "gotit"
  /\ UNCHANGED <<user, toastQueue, localStorage, now, polls, pollTimer, pollDue, srvMuted,
                 tasks>>
  /\ played' = 0
  /\ UNCHANGED audio
  /\ UNCHANGED timers
  /\ UNCHANGED modal
  /\ last' = Ran("gotIt", <<>>)

\* AlertToast.gotIt: click on "Got it"
gotIt ==
  /\ ToastShown
  /\ ~leaving
  /\ leaving' = TRUE
  /\ leaveTimer' = "gotit"
  /\ UNCHANGED <<user, toastQueue, localStorage, now, polls, pollTimer, pollDue, srvMuted,
                 tasks>>
  /\ played' = 0
  /\ UNCHANGED audio
  /\ UNCHANGED timers
  /\ UNCHANGED modal
  /\ last' = Ran("gotIt", <<>>)

\* the 340 ms timer of closeTemp fires: onCloseTemp(alertId)
onCloseTemp ==
  /\ leaveTimer = "close"
  /\ LET alertId == toastQueue[1].alert
         ls == setTempDismissed(localStorage, alertId, 5)
         q == WithoutAlert(toastQueue, alertId)
     IN /\ localStorage' = ls
        /\ toastQueue' = q
        /\ leaving' = IF ToastKey(user, q) = ToastKey(user, toastQueue) THEN leaving ELSE FALSE
        /\ leaveTimer' = "none"
  /\ UNCHANGED <<user, now, polls, pollTimer, pollDue, srvMuted, tasks>>
  /\ played' = 0
  /\ UNCHANGED audio
  /\ UNCHANGED timers
  /\ UNCHANGED modal
  /\ last' = Ran("onCloseTemp", <<toastQueue[1].alert>>)

\* the 340 ms timer of gotIt fires: onGotIt(deliveryId) up to `await ackDelivery`
onGotIt ==
  /\ leaveTimer = "gotit"
  /\ Cardinality(tasks) < MaxTasks
  /\ tasks' = tasks \cup {Task("onGotIt", toastQueue[1].delivery, "ack")}
  /\ leaveTimer' = "none"
  /\ UNCHANGED <<user, toastQueue, localStorage, now, polls, pollTimer, pollDue, srvMuted,
                 leaving>>
  /\ played' = 0
  /\ UNCHANGED audio
  /\ UNCHANGED timers
  /\ UNCHANGED modal
  /\ last' = Ran("onGotIt", <<toastQueue[1].delivery>>)

\* faulty variant of AckSettled: the entry is removed in the `try`, after
\* the await, so a failed acknowledgment leaves it queued (C7 fails)
AckSettledOnSuccess(t, ok) ==
  /\ t \in tasks /\ t.op = "onGotIt"
  /\ tasks' = tasks \ {t}
  /\ IF ok THEN SetQueue(user, WithoutDelivery(toastQueue, t.id))
           ELSE UNCHANGED <<toastQueue, leaving, leaveTimer>>
  /\ UNCHANGED <<user, localStorage, now, polls, pollTimer, pollDue, srvMuted>>
  /\ played' = 0
  /\ UNCHANGED audio
  /\ UNCHANGED timers
  /\ UNCHANGED modal
  /\ last' = Ran("AckSettled", <<t.id, ok>>)

\* ackDelivery settles (resolves or throws): the `finally` of onGotIt
AckSettled(t, ok) ==
  /\ t \in tasks /\ t.op = "onGotIt"
  /\ tasks' = tasks \ {t}
  /\ SetQueue(user, WithoutDelivery(toastQueue, t.id))
  /\ UNCHANGED <<user, localStorage, now, polls, pollTimer, pollDue, srvMuted>>
  /\ played' = 0
  /\ UNCHANGED audio
  /\ UNCHANGED timers
  /\ UNCHANGED modal
  /\ last' = Ran("AckSettled", <<t.id, ok>>)

\* ------------------------------------------- actions of AlertsModal
\* the rows listAlerts() returns
Rows == [a \in Alerts |-> IF srvMuted[a] THEN "muted" ELSE "active"]

\* openAlerts with a user: the [open] effect issues listAlerts()
openAlerts ==
  /\ user /\ ~alertsOpen
  /\ Cardinality(tasks) < MaxTasks
  /\ alertsOpen' = TRUE
  /\ err' = "null"
  /\ busy' = TRUE
  /\ tasks' = tasks \cup {Task("load", "all", "list")}
  /\ UNCHANGED <<user, toastQueue, localStorage, now, polls, pollTimer, pollDue, srvMuted,
                 leaving, leaveTimer, alerts, muteOpenFor>>
  /\ played' = 0
  /\ UNCHANGED audio
  /\ UNCHANGED timers
  /\ last' = Ran("openAlerts", <<>>)

\* listAlerts() of the [open] effect settles
AlertsLoaded(t, ok) ==
  /\ t \in tasks /\ t.op = "load"
  /\ tasks' = tasks \ {t}
  /\ IF t.ph = "cancelled"
     THEN UNCHANGED <<alerts, err, busy>>
     ELSE /\ alerts' = IF ok THEN Rows ELSE alerts
          /\ err' = IF ok THEN err ELSE "Failed to load alerts."
          /\ busy' = FALSE
  /\ UNCHANGED <<user, toastQueue, localStorage, now, polls, pollTimer, pollDue, srvMuted,
                 leaving, leaveTimer, alertsOpen, muteOpenFor>>
  /\ played' = 0
  /\ UNCHANGED audio
  /\ UNCHANGED timers
  /\ last' = Ran("AlertsLoaded", <<ok>>)

\* onClose of the alerts manager (disabled while busy)
closeAlerts ==
  /\ alertsOpen /\ ~busy
  /\ alertsOpen' = FALSE
  /\ tasks' = CancelLoad(tasks)
  /\ UNCHANGED <<user, toastQueue, localStorage, now, polls, pollTimer, pollDue, srvMuted,
                 leaving, leaveTimer, alerts, busy, err, muteOpenFor>>
  /\ played' = 0
  /\ UNCHANGED audio
  /\ UNCHANGED timers
  /\ last' = Ran("closeAlerts", <<>>)

\* `showUnmute` of the row of alert a, as rendered
showUnmute(a) == alerts[a] = "muted" \/ getMuteUntil(localStorage, a) # 0

\* the "Mute" button of a row: setMuteOpenFor(a); the render of the row has
\* read getMuteUntil(a.id)
setMuteOpenFor(a) ==
  /\ alertsOpen /\ ~busy
  /\ alerts[a] # "absent" /\ ~showUnmute(a)
  /\ muteOpenFor' = [id |-> a, muted |-> alerts[a] = "muted"]
  /\ localStorage' = getMuteUntilLS(localStorage, a)
  /\ UNCHANGED <<user, toastQueue, now, polls, pollTimer, pollDue, srvMuted, tasks,
                 leaving, leaveTimer, alertsOpen, alerts, busy, err>>
  /\ played' = 0
  /\ UNCHANGED audio
  /\ UNCHANGED timers
  /\ last' = Ran("setMuteOpenFor", <<a>>)

\* applyMute(muteOpenFor, choice), timed branch, up to its first await
applyMuteTimed(choice) ==
  /\ alertsOpen /\ ~busy /\ muteOpenFor # NoRow
  /\ Cardinality(tasks) < MaxTasks
  /\ err' = "null"
  /\ busy' = TRUE
  /\ localStorage' = setMuteUntil(localStorage, muteOpenFor.id,
                                  AlertsModal_choiceToUntil(choice))
  /\ tasks' = tasks \cup {Task("applyMute", muteOpenFor.id,
                               IF muteOpenFor.muted THEN "unmute" ELSE "reload")}
  /\ UNCHANGED <<user, toastQueue, now, polls, pollTimer, pollDue, srvMuted,
                 leaving, leaveTimer, alertsOpen, alerts, muteOpenFor>>
  /\ played' = 0
  /\ UNCHANGED audio
  /\ UNCHANGED timers
  /\ last' = Ran("applyMuteTimed", <<muteOpenFor.id, choice>>)

\* applyMute(muteOpenFor, "always") up to `await updateAlert`
applyMuteAlways ==
  /\ alertsOpen /\ ~busy /\ muteOpenFor # NoRow
  /\ Cardinality(tasks) < MaxTasks
  /\ err' = "null"
  /\ busy' = TRUE
  /\ localStorage' = clearMuteUntil(localStorage, muteOpenFor.id)
  /\ tasks' = tasks \cup {Task("applyMute", muteOpenFor.id, "mute")}
  /\ UNCHANGED <<user, toastQueue, now, polls, pollTimer, pollDue, srvMuted,
                 leaving, leaveTimer, alertsOpen, alerts, muteOpenFor>>
  /\ played' = 0
  /\ UNCHANGED audio
  /\ UNCHANGED timers
  /\ last' = Ran("applyMuteAlways", <<muteOpenFor.id>>)

\* AlertsModal.unmute(a) up to `await updateAlert`
unmute(a) ==
  /\ alertsOpen /\ ~busy
  /\ alerts[a] # "absent" /\ showUnmute(a)
  /\ Cardinality(tasks) < MaxTasks
  /\ err' = "null"
  /\ busy' = TRUE
  /\ localStorage' = clearMuteUntil(localStorage, a)
  /\ tasks' = tasks \cup {Task("unmute", a, "unmute")}
  /\ UNCHANGED <<user, toastQueue, now, polls, pollTimer, pollDue, srvMuted,
                 leaving, leaveTimer, alertsOpen, alerts, muteOpenFor>>
  /\ played' = 0
  /\ UNCHANGED audio
  /\ UNCHANGED timers
  /\ last' = Ran("unmute", <<a>>)

\* the message of the catch of applyMute and of unmute
Failed(t) == IF t.op = "unmute" THEN "Failed to unmute alert." ELSE "Failed to mute alert."

\* updateAlert of applyMute or unmute settles; then reloadAlerts() is issued
ModalUpdated(t, ok) ==
  /\ t \in tasks /\ t.op \in {"applyMute", "unmute"} /\ t.ph \in {"mute", "unmute"}
  /\ IF ok
     THEN /\ srvMuted' = [srvMuted EXCEPT ![t.id] = (t.ph = "mute")]
          /\ tasks' = (tasks \ {t}) \cup {[t EXCEPT !.ph = "reload"]}
          /\ UNCHANGED <<err, busy>>
     ELSE /\ tasks' = tasks \ {t}
          /\ err' = Failed(t)
          /\ busy' = FALSE
          /\ UNCHANGED srvMuted
  /\ UNCHANGED <<user, toastQueue, localStorage, now, polls, pollTimer, pollDue,
                 leaving, leaveTimer, alertsOpen, alerts, muteOpenFor>>
  /\ played' = 0
  /\ UNCHANGED audio
  /\ UNCHANGED timers
  /\ last' = Ran("ModalUpdated", <<t.id, ok>>)

\* faulty variant of ModalReloaded: the catch takes the mute-until record of
\* the alert back (C21 fails)
ModalReloadedRollsBack(t, ok) ==
  /\ t \in tasks /\ t.op \in {"applyMute", "unmute"} /\ t.ph = "reload"
  /\ tasks' = tasks \ {t}
  /\ busy' = FALSE
  /\ IF ok
     THEN /\ alerts' = Rows
          /\ muteOpenFor' = IF t.op = "applyMute" THEN NoRow ELSE muteOpenFor
          /\ UNCHANGED <<err, localStorage>>
     ELSE /\ err' = Failed(t)
          /\ localStorage' = clearMuteUntil(localStorage, t.id)
          /\ UNCHANGED <<alerts, muteOpenFor>>
  /\ UNCHANGED <<user, toastQueue, now, polls, pollTimer, pollDue, srvMuted,
                 leaving, leaveTimer, alertsOpen>>
  /\ played' = 0
  /\ UNCHANGED audio
  /\ UNCHANGED timers
  /\ last' = Ran("ModalReloaded", <<t.id, ok>>)

\* reloadAlerts() of applyMute or unmute settles
ModalReloaded(t, ok) ==
  /\ t \in tasks /\ t.op \in {"applyMute", "unmute"} /\ t.ph = "reload"
  /\ tasks' = tasks \ {t}
  /\ busy' = FALSE
  /\ IF ok
     THEN /\ alerts' = Rows
          /\ muteOpenFor' = IF t.op = "applyMute" THEN NoRow ELSE muteOpenFor
          /\ UNCHANGED err
     ELSE /\ err' = Failed(t)
          /\ UNCHANGED <<alerts, muteOpenFor>>
  /\ UNCHANGED <<user, toastQueue, localStorage, now, polls, pollTimer, pollDue, srvMuted,
                 leaving, leaveTimer, alertsOpen>>
  /\ played' = 0
  /\ UNCHANGED audio
  /\ UNCHANGED timers
  /\ last' = Ran("ModalReloaded", <<t.id, ok>>)

\* ------------------------------------------------------ specifications
\* App.tsx and AlertToast.tsx without the Alert Directory: overlapping polls,
\* sign-in and sign-out, local mute and dismiss, acknowledgement, the clock
Next ==
  \/ Tick(Instants)
  \/ SignIn(MaxPolls, 0)
  \/ SignOut
  \/ UserReplaced(MaxPolls, 0)
  \/ PollInterval(MaxPolls, 0)
  \/ \E p \in BagToSet(polls) : PollRespond(p)
  \/ \E p \in BagToSet(polls) : PollFail(p)
  \/ \E p \in BagToSet(polls) : \E notes \in PollResults(p.muted) : PollApply(p, notes)
  \/ \E choice \in CoreChoices : onMuteAlertTimed(choice)
  \/ closeTemp
  \/ gotIt
  \/ onCloseTemp
  \/ onGotIt
  \/ \E t \in tasks : \E ok \in BOOLEAN : AckSettled(t, ok)

\* the same with the permanent mute of the Alert Directory, one poll at a
\* time and the clock at rest
NextDirectory ==
  \/ SignIn(1, 0)
  \/ SignOut
  \/ PollInterval(1, 0)
  \/ \E p \in BagToSet(polls) : PollRespond(p)
  \/ \E p \in BagToSet(polls) : PollFail(p)
  \/ \E p \in BagToSet(polls) : \E notes \in PollResults(p.muted) : PollApply(p, notes)
  \/ \E choice \in CoreChoices : onMuteAlertTimed(choice)
  \/ onMuteAlertAlways
  \/ \E t \in tasks : \E ok, found \in BOOLEAN : MuteAlwaysListed(t, ok, found)
  \/ \E t \in tasks : \E ok \in BOOLEAN : MuteAlwaysUpdated(t, ok)
  \/ closeTemp
  \/ gotIt
  \/ onCloseTemp
  \/ onGotIt
  \/ \E t \in tasks : \E ok \in BOOLEAN : AckSettled(t, ok)

\* one alert, one poll at a time, any answer of the Delivery Source, every
\* mute duration, and a clock that passes the expiry instants
NextClock ==
  \/ Tick(ClockInstants)
  \/ SignIn(1, 0)
  \/ SignOut
  \/ PollInterval(1, 0)
  \/ \E p \in BagToSet(polls) : PollRespond(p)
  \/ \E p \in BagToSet(polls) : PollFail(p)
  \/ \E p \in BagToSet(polls) : \E notes \in ResultsA(p.muted) : PollApply(p, notes)
  \/ \E choice \in MuteChoices : onMuteAlertTimed(choice)
  \/ closeTemp
  \/ gotIt
  \/ onCloseTemp
  \/ onGotIt
  \/ \E t \in tasks : \E ok \in BOOLEAN : AckSettled(t, ok)

Spec == Init /\ [][Next]_vars

SpecClock == Init /\ [][NextClock]_vars

\* the alerts manager next to the toast: one poll at a time, the clock at rest
NextManager ==
  \/ SignIn(1, 0)
  \/ SignOut
  \/ PollInterval(1, 0)
  \/ \E p \in BagToSet(polls) : PollRespond(p)
  \/ \E p \in BagToSet(polls) : PollFail(p)
  \/ \E p \in BagToSet(polls) : \E notes \in ManagerResults(p.muted) : PollApply(p, notes)
  \/ \E choice \in CoreChoices : onMuteAlertTimed(choice)
  \/ onUnmuteAlert
  \/ \E t \in tasks : \E ok, found \in BOOLEAN : UnmuteListed(t, ok, found)
  \/ \E t \in tasks : \E ok \in BOOLEAN : UnmuteUpdated(t, ok)
  \/ openAlerts
  \/ \E t \in tasks : \E ok \in BOOLEAN : AlertsLoaded(t, ok)
  \/ closeAlerts
  \/ \E a \in Alerts : setMuteOpenFor(a)
  \/ \E choice \in CoreChoices : applyMuteTimed(choice)
  \/ applyMuteAlways
  \/ \E a \in Alerts : unmute(a)
  \/ \E t \in tasks : \E ok \in BOOLEAN : ModalUpdated(t, ok)
  \/ \E t \in tasks : \E ok \in BOOLEAN : ModalReloaded(t, ok)

SpecManager == Init /\ [][NextManager]_vars

SpecDirectory == Init /\ [][NextDirectory]_vars

\* unmute from the toast and from the alerts manager: one session, one poll
\* at a time, the clock at rest; mutes are set in the alerts manager and a
\* toast can be closed; the rows of alert A alone are used
NextUnmute ==
  \/ SignIn(1, 0)
  \/ PollInterval(1, 0)
  \/ \E p \in BagToSet(polls) : PollRespond(p)
  \/ \E p \in BagToSet(polls) : \E notes \in ManagerResults(p.muted) : PollApply(p, notes)
  \/ closeTemp
  \/ onCloseTemp
  \/ onUnmuteAlert
  \/ \E t \in tasks : \E ok, found \in BOOLEAN : UnmuteListed(t, ok, found)
  \/ \E t \in tasks : \E ok \in BOOLEAN : UnmuteUpdated(t, ok)
  \/ openAlerts
  \/ \E t \in tasks : \E ok \in BOOLEAN : AlertsLoaded(t, ok)
  \/ closeAlerts
  \/ setMuteOpenFor("A")
  \/ \E choice \in CoreChoices : applyMuteTimed(choice)
  \/ applyMuteAlways
  \/ unmute("A")
  \/ \E t \in tasks : \E ok \in BOOLEAN : ModalUpdated(t, ok)
  \/ \E t \in tasks : \E ok \in BOOLEAN : ModalReloaded(t, ok)

SpecUnmute == Init /\ [][NextUnmute]_vars

\* the poller alone, with the interval followed on the clock: sign-in,
\* sign-out, a new user object, the ticks of the interval and the polls
NextCadence ==
  \/ Tick(ClockInstants)
  \/ SignIn(MaxPolls + 1, now + PollEvery)
  \/ SignOut
  \/ UserReplaced(MaxPolls + 1, now + PollEvery)
  \/ PollInterval(MaxPolls + 1, now + PollEvery)
  \/ \E p \in BagToSet(polls) : PollRespond(p)
  \/ \E p \in BagToSet(polls) : PollFail(p)
  \/ \E p \in BagToSet(polls) : \E notes \in ManagerResults(p.muted) : PollApply(p, notes)

SpecCadence == Init /\ [][NextCadence]_vars

\* timed mute from both entry points with every duration, the clock
\* running: one session, one poll at a time, the rows of alert A
NextMuteFor ==
  \/ Tick(ClockInstants)
  \/ SignIn(1, 0)
  \/ PollInterval(1, 0)
  \/ \E p \in BagToSet(polls) : PollRespond(p)
  \/ \E p \in BagToSet(polls) : \E notes \in ManagerResults(p.muted) : PollApply(p, notes)
  \/ \E choice \in MuteChoices : onMuteAlertTimed(choice)
  \/ openAlerts
  \/ \E t \in tasks : \E ok \in BOOLEAN : AlertsLoaded(t, ok)
  \/ closeAlerts
  \/ setMuteOpenFor("A")
  \/ \E choice \in MuteChoices : applyMuteTimed(choice)
  \/ \E t \in tasks : \E ok \in BOOLEAN : ModalReloaded(t, ok)

SpecMuteFor == Init /\ [][NextMuteFor]_vars

\* the poller and the audio cue in a browser that may have Web Audio: the
\* session comes and goes without a gesture (stored session, sign-out in
\* another tab), the first gesture comes at any point
NextAudio ==
  \/ unlock
  \/ SignIn(1, 0)
  \/ SignOut
  \/ PollInterval(1, 0)
  \/ \E p \in BagToSet(polls) : PollRespond(p)
  \/ \E p \in BagToSet(polls) : PollFail(p)
  \/ \E p \in BagToSet(polls) : \E notes \in PollResults(p.muted) : PollApply(p, notes)

SpecAudio == InitAudio /\ [][NextAudio]_vars

\* everything that touches the queue, side by side: polls that succeed, fail
\* or are cancelled, sign-out, mute, close, acknowledgment, unmute of a
\* toast muted in the alerts manager, and a clock that passes the expiry of
\* the records; one poll at a time, alert A alone
QueueInstants == {T0, T0 + 6 * MIN, T0 + 61 * MIN}

NextQueue ==
  \/ Tick(QueueInstants)
  \/ SignIn(1, 0)
  \/ SignOut
  \/ PollInterval(1, 0)
  \/ \E p \in BagToSet(polls) : PollRespond(p)
  \/ \E p \in BagToSet(polls) : PollFail(p)
  \/ \E p \in BagToSet(polls) : \E notes \in ManagerResults(p.muted) : PollApply(p, notes)
  \/ \E choice \in CoreChoices : onMuteAlertTimed(choice)
  \/ onUnmuteAlert
  \/ \E t \in tasks : \E ok, found \in BOOLEAN : UnmuteListed(t, ok, found)
  \/ closeTemp
  \/ gotIt
  \/ onCloseTemp
  \/ onGotIt
  \/ \E t \in tasks : \E ok \in BOOLEAN : AckSettled(t, ok)
  \/ openAlerts
  \/ \E t \in tasks : \E ok \in BOOLEAN : AlertsLoaded(t, ok)
  \/ setMuteOpenFor("A")
  \/ \E choice \in CoreChoices : applyMuteTimed(choice)
  \/ \E t \in tasks : \E ok \in BOOLEAN : ModalReloaded(t, ok)

SpecQueue == Init /\ [][NextQueue]_vars

\* overlapping polls, local mute and close, and a clock: the answers of two
\* polls are handled back to back
NextRepoll ==
  \/ Tick(Instants)
  \/ SignIn(MaxPolls, 0)
  \/ PollInterval(MaxPolls, 0)
  \/ \E p \in BagToSet(polls) : PollRespond(p)
  \/ \E p \in BagToSet(polls) : \E notes \in PollResults(p.muted) : PollApply(p, notes)
  \/ \E choice \in CoreChoices : onMuteAlertTimed(choice)
  \/ closeTemp
  \/ onCloseTemp

SpecRepoll == Init /\ [][NextRepoll]_vars

\* the acknowledgment of a signed-in user under fair scheduling: the 340 ms
\* timer of gotIt fires if it stays set, and a request to the Acknowledgement
\* Sink settles; the user may mute the alert of the toast at any moment
NextAckLive ==
  \/ SignIn(1, 0)
  \/ PollInterval(1, 0)
  \/ \E p \in BagToSet(polls) : PollRespond(p)
  \/ \E p \in BagToSet(polls) : \E notes \in ManagerResults(p.muted) : PollApply(p, notes)
  \/ \E choice \in CoreChoices : onMuteAlertTimed(choice)
  \/ gotIt
  \/ onGotIt
  \/ \E t \in tasks : \E ok \in BOOLEAN : AckSettled(t, ok)

SpecAckLive ==
  /\ Init
  /\ [][NextAckLive]_vars
  /\ WF_vars(onGotIt)
  /\ WF_vars(\E t \in tasks : \E ok \in BOOLEAN : AckSettled(t, ok))

\* ================================================================ claims
\* number of the entries of alert a in the queue q
CountOf(q, a) == LET Same(x) == x.alert = a IN Len(SelectSeq(q, Same))

\* the step just taken was a run() that went past `if (cancelled) return`
RunApplied == last'.op = "PollApply" /\ ~last'.input.cancelled

\* C1: the queue never holds two entries with the same Delivery identity,
\* also when one poll result lists the same Delivery twice.
C1_NoDuplicateDelivery ==
  \A i, j \in 1..Len(toastQueue) :
    toastQueue[i].delivery = toastQueue[j].delivery => i = j

\* C2: while no user is signed in the queue is empty and the poller is
\* stopped, whatever request of an earlier session settles in the meantime
\* (a poll, an acknowledgment, a permanent mute).
C2_SignedOutQueueStaysEmpty ==
  ~user => toastQueue = <<>> /\ ~pollTimer

\* C2, its case: signed out, and the answer of a poll of the ended session,
\* listing notifications that pass the filter, has just been handled.
C2_StaleAnswerAfterSignOut ==
  /\ ~user
  /\ last.op = "PollApply" /\ last.input.cancelled
  /\ Filtered(localStorage, last.input.notes) # <<>>

\* C3: right after a timed mute of alert a is written, from the toast or from
\* the alerts manager, the queue is the old queue without the entries of a.
C3_TimedMuteEmptiesQueueOfAlert ==
  [][\A a \in Alerts :
       (/\ localStorage'[LS_UNTIL(a)] # localStorage[LS_UNTIL(a)]
        /\ localStorage'[LS_UNTIL(a)] > now)
       => LET Other(x) == x.alert # a
          IN toastQueue' = SelectSeq(toastQueue, Other)]_vars

\* C4: a permanent mute of alert a that succeeds removes every entry of a,
\* and from then on no poll result, one that was in flight included, adds an
\* entry of a while a is permanently muted.
C4_AlwaysMuteKeepsAlertOut ==
  [][/\ (last'.op = "MuteAlwaysUpdated" /\ last'.input[2])
          => last'.input[1] \notin AlertIds(toastQueue')
     /\ \A a \in Alerts :
          srvMuted[a] => CountOf(toastQueue', a) <= CountOf(toastQueue, a)]_vars

\* C5: a 1-hour mute written at time t ends at t + 60 min; a poll result
\* handled while the mute is running (t + 30 min) adds no entry of the alert,
\* and one handled after its end (t + 61 min) adds its notification, if the
\* alert is not otherwise suppressed and the delivery is not queued.
C5_TimedMuteWindow ==
  [][/\ (last'.op = "onMuteAlertTimed" /\ last'.input[2] = "1h")
          => localStorage'[LS_UNTIL(last'.input[1])] = now + 60 * MIN
     /\ RunApplied =>
          \A i \in 1..Len(last'.input.notes) :
            LET n == last'.input.notes[i]
            IN WellFormed(n) =>
                 /\ now < localStorage[LS_UNTIL(n.alert)]
                      => CountOf(toastQueue', n.alert) = CountOf(toastQueue, n.alert)
                 /\ (/\ localStorage[LS_UNTIL(n.alert)] <= now
                     /\ localStorage[DISMISS_UNTIL(n.alert)] <= now
                     /\ ~n.muted
                     /\ n.delivery \notin DeliveryIds(toastQueue))
                      => n.delivery \in DeliveryIds(toastQueue')]_vars

\* C5, its case: the mute was written at T0 for one hour, and the poll result
\* handled 61 minutes later has put the alert back in the queue.
C5_AdmittedAfterExpiry ==
  /\ last.op = "PollApply" /\ ~last.input.cancelled
  /\ last.input.store[LS_UNTIL("A")] = T0 + 60 * MIN
  /\ now = T0 + 61 * MIN
  /\ "A" \in AlertIds(toastQueue)

C7_AckRemovesAlways ==
  [][last'.op = "AckSettled"
       => /\ last'.input[1] \notin DeliveryIds(toastQueue')
          /\ tasks' \subseteq tasks /\ tasks' # tasks]_vars

\* C7, its case: the acknowledgment of d1 has just failed, with a user
\* signed in and a toast left to show.
C7_AckFailed ==
  /\ last = Ran("AckSettled", <<"d1", FALSE>>)
  /\ user /\ toastQueue # <<>>

\* C8: the acknowledgment of delivery d removes d and nothing else from the
\* queue, and leaves every suppression record as it was.
C8_AckRemovesExactly ==
  [][last'.op = "AckSettled"
       => /\ LET Other(x) == x.delivery # last'.input[1]
             IN toastQueue' = SelectSeq(toastQueue, Other)
          /\ localStorage' = localStorage
          /\ srvMuted' = srvMuted]_vars

\* C8, its case: a delivery was acknowledged while another delivery of the
\* same alert was queued and a suppression record was stored.
C8_AckAmongOthers ==
  /\ last.op = "AckSettled"
  /\ AlertOf[last.input[1]] \in AlertIds(toastQueue)
  /\ \E k \in Keys : localStorage[k] # 0

\* C9: the toast on display is the first entry of the queue, and there is
\* none (no toast, no toast state) with an empty queue or without a user.
C9_HeadDisplayed ==
  /\ (user /\ toastQueue # <<>>)
       => ToastKey(user, toastQueue) = toastQueue[1].delivery
  /\ (~user \/ toastQueue = <<>>)
       => /\ ToastKey(user, toastQueue) = "none"
          /\ ~leaving /\ leaveTimer = "none"

\* C9, its case: two different notifications are queued for a signed-in user.
C9_TwoQueued ==
  /\ user /\ Len(toastQueue) >= 2
  /\ toastQueue[1].delivery # toastQueue[2].delivery
  /\ ToastKey(user, toastQueue) = toastQueue[1].delivery

\* C10: a step starts the audio cue once if it is a poll result that appends
\* to the queue, and not at all otherwise.
C10_OneCuePerAppendingPoll ==
  [][/\ played' = IF Len(toastQueue') > Len(toastQueue) THEN 1 ELSE 0
     /\ played' = 1 => RunApplied]_vars

\* C10, its case: one poll result has appended two notifications, with one
\* cue.
C10_TwoAppendedOneCue ==
  /\ last.op = "PollApply" /\ Len(last.input.notes) = 2
  /\ toastQueue = last.input.notes
  /\ played = 1

\* C11: the example run.  From an empty queue and an empty store, the poll
\* result [d1 of A, d3 of B] gives the queue [d1, d3], d1 on display and one
\* cue; a 1-hour mute of A then gives [d3]; the acknowledgment of d3 then
\* gives the empty queue.
C11_ExampleRun ==
  [][/\ (/\ RunApplied
         /\ toastQueue = <<>>
         /\ \A k \in Keys : localStorage[k] = 0
         /\ last'.input.notes = <<Note("d1", FALSE), Note("d3", FALSE)>>)
          => /\ toastQueue' = <<Note("d1", FALSE), Note("d3", FALSE)>>
             /\ ToastKey(user', toastQueue') = "d1"
             /\ played' = 1
     /\ (/\ last' = Ran("onMuteAlertTimed", <<"A", "1h">>)
         /\ toastQueue = <<Note("d1", FALSE), Note("d3", FALSE)>>)
          => toastQueue' = <<Note("d3", FALSE)>>
     /\ (/\ last'.op = "AckSettled" /\ last'.input[1] = "d3"
         /\ toastQueue = <<Note("d3", FALSE)>>)
          => toastQueue' = <<>>]_vars

\* C11, its case: the end of the example run: A is muted for an hour from
\* now, nothing else is recorded, and the acknowledgment of d3 has emptied
\* the queue of the signed-in user.
C11_RunEnded ==
  /\ user /\ toastQueue = <<>>
  /\ last.op = "AckSettled" /\ last.input[1] = "d3"
  /\ localStorage = [k \in Keys |-> IF k = LS_UNTIL("A") THEN now + 60 * MIN ELSE 0]

\* an entry of a poll result that is neither malformed nor of a suppressed
\* alert, read off the store as it is before the result is handled
Suppressed(n) ==
  \/ n.muted
  \/ localStorage[LS_UNTIL(n.alert)] > now
  \/ localStorage[DISMISS_UNTIL(n.alert)] > now

\* C12: handling a poll result leaves the old queue followed by the entries
\* of the result that are well formed, of an alert that is not suppressed and
\* of a delivery the old queue does not hold, in the order of the result.
C12_AppendInOrder ==
  [][RunApplied =>
       LET Survives(n) == /\ n.alert # "" /\ n.delivery # ""
                          /\ ~Suppressed(n)
                          /\ n.delivery \notin DeliveryIds(toastQueue)
       IN toastQueue' = toastQueue \o SelectSeq(last'.input.notes, Survives)]_vars

\* C12, its case: the result [d2, d1] has been handled with d1 queued: d2
\* went to the tail and d1 was not queued again.
C12_TailAfterOldQueue ==
  /\ last.op = "PollApply" /\ ~last.input.cancelled
  /\ last.input.notes = <<Note("d2", FALSE), Note("d1", FALSE)>>
  /\ toastQueue = <<Note("d1", FALSE), Note("d2", FALSE)>>

\* C13: a poll result adds no entry of an alert that is suppressed (flag
\* `muted` of the entry, running mute-until record, running dismiss-until
\* record), and adds every well-formed entry of an alert that is not, unless
\* its delivery is queued already.
C13_SuppressionDecides ==
  [][RunApplied =>
       \A i \in 1..Len(last'.input.notes) :
         LET n == last'.input.notes[i]
         IN (n.alert # "" /\ n.delivery # "") =>
              IF Suppressed(n)
              THEN CountOf(toastQueue', n.alert) = CountOf(toastQueue, n.alert)
              ELSE n.delivery \in DeliveryIds(toastQueue')]_vars

\* C13, its case: one result with an entry of a permanently muted alert,
\* which was dropped, and an entry of another alert, which was queued.
C13_MutedDroppedOtherQueued ==
  /\ last.op = "PollApply" /\ ~last.input.cancelled
  /\ last.input.notes = <<Note("d1", TRUE), Note("d3", FALSE)>>
  /\ toastQueue = <<Note("d3", FALSE)>>

\* C14: every queued notification has an alert id and a delivery id; an
\* entry of a poll result that lacks one is dropped, raises no error, and the
\* well-formed entries next to it are queued all the same.
C14_MalformedDropped ==
  [][/\ \A i \in 1..Len(toastQueue') :
          toastQueue'[i].alert # "" /\ toastQueue'[i].delivery # ""
     /\ (RunApplied /\ \E i \in 1..Len(last'.input.notes) :
                         last'.input.notes[i] \in Malformed)
          => /\ err' = err
             /\ \A i \in 1..Len(last'.input.notes) :
                  LET n == last'.input.notes[i]
                  IN (n \notin Malformed /\ ~Suppressed(n))
                       => n.delivery \in DeliveryIds(toastQueue')]_vars

\* C14, its case: a result with an entry without delivery id in front of a
\* well-formed one has been handled; the well-formed one alone is queued.
C14_WellFormedNextToMalformed ==
  /\ last.op = "PollApply" /\ ~last.input.cancelled
  /\ last.input.notes = <<[alert |-> "A", delivery |-> "", muted |-> FALSE],
                          Note("d1", FALSE)>>
  /\ toastQueue = <<Note("d1", FALSE)>>

\* C15: a poll whose fetch fails changes neither the queue nor the store,
\* sets no error, starts no cue, and leaves the interval of a signed-in user
\* running, so that the next tick polls again.
C15_FailedPollIsSilent ==
  [][last'.op = "PollFail"
       => /\ toastQueue' = toastQueue
          /\ localStorage' = localStorage
          /\ err' = err
          /\ played' = 0
          /\ pollTimer' = pollTimer
          /\ user' => pollTimer']_vars

\* C15, its case: the fetch of a signed-in user with a queued notification
\* and a stored record has just failed, and the interval is set.
C15_FetchFailed ==
  /\ last.op = "PollFail"
  /\ user /\ pollTimer
  /\ toastQueue # <<>>
  /\ \E k \in Keys : localStorage[k] # 0

\* C16: a request to the Delivery Source is started only for a signed-in
\* user, one at a time, by a sign-in (or a new user object), at once, or by a
\* tick of the interval, which comes no sooner than 5 minutes after the
\* activation or the tick before it; once the user is signed out the
\* interval is cleared and every outstanding run is cancelled.
C16_PollCadence ==
  [][/\ BagCardinality(polls') > BagCardinality(polls)
          => /\ user'
             /\ BagCardinality(polls') = BagCardinality(polls) + 1
             /\ last'.op \in {"SignIn", "UserReplaced", "PollInterval"}
     /\ last'.op \in {"SignIn", "UserReplaced", "PollInterval"}
          => /\ BagCardinality(polls') = BagCardinality(polls) + 1
             /\ pollTimer'
             /\ pollDue' = now + 5 * MIN
     /\ last'.op = "PollInterval" => user /\ now >= pollDue
     /\ ~user' => /\ ~pollTimer'
                  /\ \A p \in BagToSet(polls') : p.cancelled]_vars

\* C16, its case: the user signed in at T0 and the interval has just fired,
\* 5 minutes later, with the poll of the sign-in still outstanding.
C16_TickAfterFiveMinutes ==
  /\ last.op = "PollInterval"
  /\ now = T0 + 5 * MIN /\ pollDue = T0 + 10 * MIN
  /\ BagCardinality(polls) = 2

\* C17: closing the toast of alert a issues no request (no acknowledgment,
\* no call of the Alert Directory); it writes the dismiss-until record of a,
\* now + 5 minutes, takes the entries of a out of the queue, and leaves the
\* mute-until record of a and every record of the other alerts as they were.
C17_CloseFrame ==
  [][last'.op = "onCloseTemp"
       => LET a == last'.input[1]
              Other(x) == x.alert # a
          IN /\ tasks' = tasks
             /\ polls' = polls
             /\ srvMuted' = srvMuted
             /\ localStorage' =
                  [k \in Keys |-> IF k = DISMISS_UNTIL(a) THEN now + 5 * MIN
                                  ELSE localStorage[k]]
             /\ toastQueue' = SelectSeq(toastQueue, Other)]_vars

\* C17, its case: the toast of A has just been closed while an
\* acknowledgment was in flight and a mute record of B was stored.
C17_ClosedBesideOthers ==
  /\ last = Ran("onCloseTemp", <<"A">>)
  /\ tasks # {}
  /\ localStorage[LS_UNTIL("B")] # 0

\* a call of unmute (toast or alerts manager) that this step completes or
\* moves on
UnmuteMoves == {t \in tasks \ tasks' : t.op \in {"onUnmuteAlert", "unmute"}}

\* C18: unmute of alert a, from the toast or from the alerts manager,
\* deletes the mute-until record of a and asks the Alert Directory to clear
\* the flag of a when that flag is set; neither the call nor any of its
\* later steps changes another record, the dismiss-until record of a, the
\* queue, or the flag of another alert.
C18_UnmuteFrame ==
  [][/\ last'.op \in {"onUnmuteAlert", "unmute"}
          => LET a == last'.input[1]
             IN /\ localStorage' = [k \in Keys |-> IF k = LS_UNTIL(a) THEN 0
                                                   ELSE localStorage[k]]
                /\ toastQueue' = toastQueue
                /\ srvMuted' = srvMuted
                /\ \E t \in tasks' : /\ t.id = a
                                    /\ t.op \in {"onUnmuteAlert", "unmute"}
                                    /\ t.ph \in {"list", "unmute"}
     /\ \A t \in UnmuteMoves :
          /\ localStorage' = localStorage
          /\ toastQueue' = toastQueue
          /\ \A b \in Alerts :
               srvMuted'[b] # srvMuted[b] => b = t.id /\ ~srvMuted'[b]
          /\ (t.ph = "list" /\ last'.input = <<t.id, TRUE, TRUE>> /\ srvMuted[t.id])
               => Task("onUnmuteAlert", t.id, "update") \in tasks'
          /\ (t.ph \in {"update", "unmute"} /\ last'.input[2])
               => ~srvMuted'[t.id]]_vars

\* C18, its case: the unmute of the toast of A has cleared the flag of A in
\* the Alert Directory; the record of A is gone and A is still queued.
C18_UnmutedFromToast ==
  /\ last = Ran("UnmuteUpdated", <<"A", TRUE>>)
  /\ ~srvMuted["A"]
  /\ localStorage[LS_UNTIL("A")] = 0
  /\ "A" \in AlertIds(toastQueue)

\* C19: a read of a mute-until or dismiss-until item whose value is <= now,
\* the expiry instant included, reports no suppression and leaves the item
\* deleted; a read of an item whose value is > now reports the suppression
\* and leaves the item as it is.  Stated of the two readers on every store
\* and instant reached, and of the reads a poll result makes.
C19_LazyExpiry ==
  [][/\ \A a \in Alerts :
          LET m == localStorage[LS_UNTIL(a)]
              d == localStorage[DISMISS_UNTIL(a)]
          IN /\ IF m <= now
                THEN /\ getMuteUntil(localStorage, a) = 0
                     /\ getMuteUntilLS(localStorage, a)
                          = [localStorage EXCEPT ![LS_UNTIL(a)] = 0]
                ELSE /\ getMuteUntil(localStorage, a) = m
                     /\ getMuteUntilLS(localStorage, a) = localStorage
             /\ IF d <= now
                THEN /\ ~getTempDismissed(localStorage, a)
                     /\ getTempDismissedLS(localStorage, a)
                          = [localStorage EXCEPT ![DISMISS_UNTIL(a)] = 0]
                ELSE /\ getTempDismissed(localStorage, a)
                     /\ getTempDismissedLS(localStorage, a) = localStorage
     /\ RunApplied =>
          \A i \in 1..Len(last'.input.notes) :
            LET n == last'.input.notes[i]
                m == localStorage[LS_UNTIL(n.alert)]
                d == localStorage[DISMISS_UNTIL(n.alert)]
            IN (n.alert # "" /\ n.delivery # "" /\ ~n.muted) =>
                 /\ localStorage'[LS_UNTIL(n.alert)] = IF m <= now THEN 0 ELSE m
                 /\ m <= now =>
                      localStorage'[DISMISS_UNTIL(n.alert)] = IF d <= now THEN 0 ELSE d
                 /\ (m > now \/ d > now) =>
                      CountOf(toastQueue', n.alert) = CountOf(toastQueue, n.alert)]_vars

\* C19, its case: a poll result was handled at the very instant the 1-hour
\* mute of A expired: the item is gone and A is queued.
C19_ReadAtExpiryInstant ==
  /\ last.op = "PollApply" /\ ~last.input.cancelled
  /\ now = T0 + 60 * MIN
  /\ last.input.store[LS_UNTIL("A")] = now
  /\ localStorage[LS_UNTIL("A")] = 0
  /\ "A" \in AlertIds(toastQueue)

\* C20: when a request to the Alert Directory made by a mute-always or by an
\* unmute fails, from the toast or from the alerts manager, the step that
\* takes the failure leaves an error message set for the user.
C20_DirectoryFailureReported ==
  [][(/\ last'.op \in {"MuteAlwaysListed", "MuteAlwaysUpdated",
                       "UnmuteListed", "UnmuteUpdated", "ModalUpdated"}
      /\ ~last'.input[2])
       => err' # "null"]_vars

\* C21: no rollback.  The step that takes the failure of a request to the
\* Alert Directory made by a mute or an unmute (toast or alerts manager)
\* leaves the store as the call had left it: a mute-until record that was
\* written is still read as running, one that was cleared is still absent.
C21_NoRollback ==
  [][(/\ last'.op \in {"UnmuteListed", "UnmuteUpdated", "ModalUpdated",
                       "ModalReloaded"}
      /\ ~last'.input[2])
       => /\ localStorage' = localStorage
          /\ \A a \in Alerts :
               /\ localStorage[LS_UNTIL(a)] > now
                    => getMuteUntil(localStorage', a) = localStorage[LS_UNTIL(a)]
               /\ localStorage[LS_UNTIL(a)] = 0
                    => getMuteUntil(localStorage', a) = 0]_vars

\* C21, its case: a 1-hour mute of A was written in the alerts manager, the
\* request that followed has just failed, and the mute is still running.
C21_TimedMuteKeptAfterFailure ==
  /\ last = Ran("ModalReloaded", <<"A", FALSE>>)
  /\ err = "Failed to mute alert."
  /\ localStorage[LS_UNTIL("A")] = now + 60 * MIN
  /\ getMuteUntil(localStorage, "A") # 0

C23_MuteDurations ==
  [][LET Hours(c) == CASE c = "1h" -> 1 [] c = "8h" -> 8 [] c = "1d" -> 24
                       [] c = "1w" -> 7 * 24 [] c = "1mo" -> 30 * 24
     IN /\ last'.op \in {"onMuteAlertTimed", "applyMuteTimed"}
             => localStorage'[LS_UNTIL(last'.input[1])]
                  = now + Hours(last'.input[2]) * 60 * MIN
        /\ \A c \in MuteChoices :
             AlertsModal_choiceToUntil(c) = choiceToUntil(c)]_vars

\* C23, its case: a mute of one month has just been written in the alerts
\* manager, later than T0, and the record is 30 days ahead of the clock.
C23_MonthFromManager ==
  /\ last = Ran("applyMuteTimed", <<"A", "1mo">>)
  /\ now > T0
  /\ localStorage[LS_UNTIL("A")] = now + 30 * 24 * 60 * MIN

\* C24: the audio context is made and resumed by the first gesture alone,
\* which is handled once; a cue asked for before any gesture, or without
\* Web Audio, leaves the context as it is and sounds nothing; and whatever
\* the outcome of construction and resume, the queue and the store after a
\* poll result are the ones the result gives.
C24_AudioGate ==
  [][/\ audioCtxRef' # audioCtxRef => last'.op = "unlock"
     /\ last'.op = "unlock" => ~gestured /\ gestured'
     /\ (played' = 1 /\ (~gestured \/ ~AudioCtx))
          => audioCtxRef' = audioCtxRef /\ audioCtxRef' # "running"
     /\ RunApplied
          => /\ toastQueue' = QueueAfterPoll(toastQueue,
                                             Filtered(localStorage, last'.input.notes))
             /\ localStorage' = FilterLS(localStorage, last'.input.notes)]_vars

\* C25: the filter and the append of one poll cycle are one step: the queue
\* grows only in the step that handles a poll result, that step keeps the old
\* queue in front, does nothing else (no sign-out, no request, no record
\* written, only expired records deleted), and no entry it appends is of an
\* alert with a running mute-until or dismiss-until record when it ends.
C25_FilterAndAppendAtOnce ==
  [][/\ Len(toastQueue') > Len(toastQueue) => RunApplied
     /\ RunApplied
          => /\ user' = user /\ srvMuted' = srvMuted /\ tasks' = tasks
             /\ \A k \in Keys : localStorage'[k] \in {localStorage[k], 0}
             /\ Len(toastQueue') >= Len(toastQueue)
             /\ SubSeq(toastQueue', 1, Len(toastQueue)) = toastQueue
             /\ \A i \in (Len(toastQueue) + 1)..Len(toastQueue') :
                  LET a == toastQueue'[i].alert
                  IN /\ localStorage'[LS_UNTIL(a)] <= now
                     /\ localStorage'[DISMISS_UNTIL(a)] <= now]_vars

\* C25, its case: a result listing d1 of A and d3 of B has been handled
\* while a record of A was running: d3 alone was appended.
C25_RecordAtAppend ==
  /\ last.op = "PollApply" /\ ~last.input.cancelled
  /\ last.input.notes = <<Note("d1", FALSE), Note("d3", FALSE)>>
  /\ \/ localStorage[LS_UNTIL("A")] > now
     \/ localStorage[DISMISS_UNTIL("A")] > now
  /\ toastQueue = <<Note("d3", FALSE)>>

\* C26: an entry leaves the queue only by the acknowledgment of its
\* delivery, a mute or a close of its alert, or a sign-out, and the entries
\* that stay keep their order; a poll (handled, failed or cancelled), an
\* unmute and the passing of time leave the old queue in place, in front.
C26_QueueStable ==
  [][LET Stays(x) == x \in Range(toastQueue')
         Was(x) == x \in Range(toastQueue)
     IN /\ SelectSeq(toastQueue', Was) = SelectSeq(toastQueue, Stays)
        /\ \A i \in 1..Len(toastQueue) :
             ~Stays(toastQueue[i])
               => \/ last'.op = "AckSettled"
                       /\ last'.input[1] = toastQueue[i].delivery
                  \/ last'.op \in {"onMuteAlertTimed", "onCloseTemp"}
                       /\ last'.input[1] = toastQueue[i].alert
                  \/ last'.op = "MuteAlwaysUpdated"
                       /\ last'.input = <<toastQueue[i].alert, TRUE>>
                  \/ last'.op = "SignOut"
        /\ last'.op \in {"PollApply", "PollFail", "PollRespond", "PollInterval",
                         "Tick", "onUnmuteAlert", "UnmuteListed", "UnmuteUpdated"}
             => /\ Len(toastQueue') >= Len(toastQueue)
                /\ SubSeq(toastQueue', 1, Len(toastQueue)) = toastQueue]_vars

\* C26, its case: d1 and d2 are queued, their alert was muted in the alerts
\* manager, and the clock has just gone past the end of that mute.
C26_QueuedThroughExpiry ==
  /\ last.op = "Tick"
  /\ localStorage[LS_UNTIL("A")] > 0 /\ localStorage[LS_UNTIL("A")] <= now
  /\ Len(toastQueue) = 2 /\ toastQueue[1].delivery # toastQueue[2].delivery

\* C27: handling the same poll result twice in a row leaves the queue of
\* the first time and starts no cue the second time: stated of two steps in a
\* row that handle the same result, and of the updater applied once more to
\* the result just handled, on the queue and the store it has left.
C27_RepollIdempotent ==
  [][/\ (/\ last.op = "PollApply" /\ ~last.input.cancelled
         /\ RunApplied
         /\ last'.input.notes = last.input.notes)
          => toastQueue' = toastQueue /\ played' = 0
     /\ RunApplied
          => LET again == Filtered(localStorage', last'.input.notes)
             IN /\ QueueAfterPoll(toastQueue', again) = toastQueue'
                /\ PlaysOfPoll(toastQueue', again) = 0]_vars

\* C27, its case: the result [d1, d2] has just been handled on the queue
\* [d1, d2] it had given before: nothing was added and no cue was started.
C27_SameResultAgain ==
  /\ last.op = "PollApply" /\ ~last.input.cancelled
  /\ last.input.notes = <<Note("d1", FALSE), Note("d2", FALSE)>>
  /\ Filtered(last.input.store, last.input.notes) = last.input.notes
  /\ toastQueue = last.input.notes
  /\ played = 0

C29_FailedAlwaysMuteChangesNothing ==
  [][(\/ last'.op = "onMuteAlertAlways"
      \/ last'.op = "MuteAlwaysListed"
      \/ last'.op = "MuteAlwaysUpdated" /\ ~last'.input[2])
       => /\ toastQueue' = toastQueue
          /\ localStorage' = localStorage
          /\ leaving' = leaving /\ leaveTimer' = leaveTimer
          /\ (last'.op = "MuteAlwaysListed" /\ ~(last'.input[2] /\ last'.input[3]))
               => tasks' \subseteq tasks]_vars

\* C29, its case: the update of the permanent mute of A has just failed; A
\* is still queued, on display, and a record of B is still stored.
C29_UpdateFailed ==
  /\ last = Ran("MuteAlwaysUpdated", <<"A", FALSE>>)
  /\ user /\ toastQueue # <<>> /\ toastQueue[1].alert = "A"
  /\ ~srvMuted["A"]
  /\ \E k \in Keys : localStorage[k] # 0

\* C30: once "Got it" was clicked on the toast of delivery d, and the user
\* stays signed in, the acknowledgment of d is sent sooner or later, whatever
\* the user does with the toast while the 340 ms timer is running.
C30_GotItLeadsToAck ==
  \A d \in Deliveries :
    (user /\ toastQueue # <<>> /\ toastQueue[1].delivery = d /\ leaveTimer = "gotit")
      ~> (~user \/ Task("onGotIt", d, "ack") \in tasks)

\* C31: a toast on display calls at most one of onGotIt and onCloseTemp, at
\* most once.  A click on "Got it" or on the close button is taken only
\* while the toast is not leaving; the callback is called by the timer of the
\* toast on display, about its own delivery or alert, and the timer is then
\* spent for as long as this toast stays; no timer is pending without a
\* toast on display.
C31_OneResolveCallback ==
  [][/\ last'.op \in {"gotIt", "closeTemp"}
          => /\ ~leaving /\ leaveTimer = "none"
             /\ leaving' /\ leaveTimer' # "none"
     /\ last'.op = "onGotIt"
          => /\ ToastShown /\ leaving /\ leaveTimer = "gotit"
             /\ last'.input[1] = toastQueue[1].delivery
             /\ leaveTimer' = "none"
     /\ last'.op = "onCloseTemp"
          => /\ ToastShown /\ leaving /\ leaveTimer = "close"
             /\ last'.input[1] = toastQueue[1].alert
             /\ leaveTimer' = "none"
     /\ (leaving /\ leaveTimer = "none" /\ leaving') => leaveTimer' = "none"
     /\ leaveTimer' # leaveTimer
          => \/ last'.op \in {"gotIt", "closeTemp", "onGotIt", "onCloseTemp"}
             \/ leaveTimer' = "none" /\ ToastKey(user', toastQueue') # ToastKey(user, toastQueue)
     /\ leaveTimer' # "none"
          => /\ user' /\ toastQueue' # <<>> /\ leaving'
             /\ (leaveTimer # "none" => leaveTimer' = leaveTimer)]_vars

\* C31, its case: "Got it" was clicked on the toast of d1, onGotIt(d1) was
\* called, the acknowledgment is under way and the toast is still on display,
\* leaving, its timer spent.
C31_CallbackCalledToastStays ==
  /\ last = Ran("onGotIt", <<"d1">>)
  /\ user /\ toastQueue # <<>> /\ toastQueue[1].delivery = "d1"
  /\ leaving /\ leaveTimer = "none"
  /\ Task("onGotIt", "d1", "ack") \in tasks

\* C32: a sign-out empties the queue and leaves every record of the store
\* as it is, and so does the sign-in after it; a poll result handled for the
\* signed-in user adds no entry of an alert whose record is running, whenever
\* it was written, and adds the entry once the records are over.
C32_SignOutKeepsRecords ==
  [][/\ last'.op = "SignOut"
          => /\ ~user' /\ toastQueue' = <<>>
             /\ localStorage' = localStorage
     /\ last'.op = "SignIn"
          => /\ user' /\ toastQueue' = <<>>
             /\ localStorage' = localStorage
     /\ RunApplied =>
          \A i \in 1..Len(last'.input.notes) :
            LET n == last'.input.notes[i]
                running == \/ localStorage[LS_UNTIL(n.alert)] > now
                           \/ localStorage[DISMISS_UNTIL(n.alert)] > now
            IN (n.alert # "" /\ n.delivery # "") =>
                 /\ running => CountOf(toastQueue', n.alert) = CountOf(toastQueue, n.alert)
                 /\ (~running /\ ~n.muted) => n.delivery \in DeliveryIds(toastQueue')]_vars

\* C32, its case: the user has just signed out while a mute of A and a
\* dismissal of A were running; the queue is empty and both records are kept.
C32_SignedOutWithRecords ==
  /\ last.op = "SignOut"
  /\ ~user /\ toastQueue = <<>>
  /\ localStorage[LS_UNTIL("A")] > now
  /\ localStorage[DISMISS_UNTIL("A")] > now


\* the runs of `ps` whose closure is not cancelled, as a number
LiveRuns(ps) ==
  BagCardinality([p \in {q \in BagToSet(ps) : ~q.cancelled} |-> ps[p]])

\* C33: at most one interval of the poll effect is set at any time, and
\* exactly one while a user is signed in.  Every change of the signed-in user
\* (sign-in, sign-out, replacement of the user object) leaves every run that
\* was in flight before it cancelled and at most the one run the new
\* activation starts not cancelled; no run is live while signed out; a
\* cancelled run that delivers its answer changes neither the queue nor the
\* store and plays nothing, so the queue changes by a poll only through a
\* run of the current activation.
C33_OneLiveActivation ==
  [][ /\ timers' <= 1
      /\ timers' = (IF user' THEN 1 ELSE 0)
      /\ pollTimer' = (timers' = 1)
      /\ last'.op \in {"SignIn", "SignOut", "UserReplaced"}
           => /\ LiveRuns(polls') = (IF user' THEN 1 ELSE 0)
              /\ BagCardinality(polls') - LiveRuns(polls')
                   = BagCardinality(polls)
              /\ \A p \in BagToSet(polls) : Cancel(p) \in BagToSet(polls')
      /\ ~user' => LiveRuns(polls') = 0
      /\ last'.op = "PollInterval"
           => /\ user /\ timers = 1
              /\ LiveRuns(polls') = LiveRuns(polls) + 1
      /\ (last'.op = "PollApply" /\ last'.input.cancelled)
           => /\ toastQueue' = toastQueue
              /\ localStorage' = localStorage
              /\ played' = 0
      /\ (last'.op = "PollApply" /\ toastQueue' # toastQueue)
           => user /\ ~last'.input.cancelled
    ]_vars

\* a run of an earlier activation delivered alerts after the signed-in user
\* changed, and the queue stayed empty
C33_StaleRunIgnored ==
  /\ last.op = "PollApply"
  /\ last.input.cancelled
  /\ last.input.notes # <<>>
  /\ user /\ timers = 1
  /\ toastQueue = <<>>

====
